---- MODULE Spec2Model ----
(***************************************************************************)
(* Model of module-tagger.py: the AsciiDocFile document model and the      *)
(* AsciiDocTUI review session (command loop, cursor, scroll, one-slot      *)
(* undo), over a small file system.                                        *)
(*                                                                         *)
(* A text (a Python str, or the decoded bytes of a file) is a sequence of  *)
(* tokens.  The tokens that matter to the program are kept apart: the      *)
(* line terminators "\n" and "\r", the blank " ", the anchor opener        *)
(* "[id=" and closer "]", the content-type marker token, the review        *)
(* comment, the three category names, and "x" for any other character.     *)
(***************************************************************************)
EXTENDS Integers, Sequences, FiniteSets, TLC

\* ------------------------------------------------------------------ bounds
NumFiles == 2
MaxEdits == 2
MaxLen == 3
\* a long document has up to MaxLines lines before its anchor
MaxLines == 24

\* --------------------------------------------------------------- constants
LF == "\n"
CR == "\r"
SP == " "
MARKER == ":_mod-docs-content-type:"
REVIEW == "// TODO: needs-type-review"
ContentTypes == {"CONCEPT", "PROCEDURE", "REFERENCE"}
BADBYTE == "\\xff"

\* os.linesep of the platforms curses runs on
os_linesep == <<LF>>

\* stdscr.getmaxyx()[0], the terminal height
height == 5

\* Python's None where an index or a tuple is expected
None == <<>>
NoIndex == -1

\* the step of a scroll command
SCROLL_STEP == 10

\* ------------------------------------------------------------ text helpers
RECURSIVE Concat(_)
\* "".join(lines)
Concat(lines) ==
    IF lines = <<>> THEN <<>> ELSE Head(lines) \o Concat(Tail(lines))

RECURSIVE universal_newlines(_)
\* text-mode read (newline=None): "\r\n" and "\r" become "\n"
universal_newlines(s) ==
    IF s = <<>> THEN <<>>
    ELSE IF Head(s) = CR
         THEN IF Len(s) >= 2 /\ s[2] = LF
              THEN <<LF>> \o universal_newlines(Tail(Tail(s)))
              ELSE <<LF>> \o universal_newlines(Tail(s))
         ELSE <<Head(s)>> \o universal_newlines(Tail(s))

RECURSIVE newlines_to_linesep(_)
\* text-mode write (newline=None): "\n" becomes os.linesep
newlines_to_linesep(s) ==
    IF s = <<>> THEN <<>>
    ELSE IF Head(s) = LF
         THEN os_linesep \o newlines_to_linesep(Tail(s))
         ELSE <<Head(s)>> \o newlines_to_linesep(Tail(s))

\* Path.read_text(): an undecodable byte raises, shown as ok = FALSE
read_text(bytes) ==
    IF \E k \in 1..Len(bytes) : bytes[k] = BADBYTE
    THEN [ok |-> FALSE, text |-> <<>>]
    ELSE [ok |-> TRUE, text |-> universal_newlines(bytes)]

\* Path.write_text(s): the bytes the file holds afterwards
write_text(s) == newlines_to_linesep(s)

RECURSIVE splitlines_from(_, _)
\* str.splitlines(keepends=True), cur being the line under construction;
\* of the line boundaries Python knows, the tokens hold "\n", "\r", "\r\n"
splitlines_from(s, cur) ==
    IF s = <<>> THEN (IF cur = <<>> THEN <<>> ELSE <<cur>>)
    ELSE IF Head(s) = CR /\ Len(s) >= 2 /\ s[2] = LF
         THEN <<cur \o <<CR, LF>>>> \o splitlines_from(Tail(Tail(s)), <<>>)
    ELSE IF Head(s) \in {LF, CR}
         THEN <<Append(cur, Head(s))>> \o splitlines_from(Tail(s), <<>>)
    ELSE splitlines_from(Tail(s), Append(cur, Head(s)))

splitlines(s) == splitlines_from(s, <<>>)

Whitespace == {SP, LF, CR}

RECURSIVE lstrip(_)
lstrip(s) ==
    IF s # <<>> /\ Head(s) \in Whitespace THEN lstrip(Tail(s)) ELSE s

RECURSIVE rstrip(_)
rstrip(s) ==
    IF s # <<>> /\ s[Len(s)] \in Whitespace
    THEN rstrip(SubSeq(s, 1, Len(s) - 1)) ELSE s

\* str.strip()
strip(s) == rstrip(lstrip(s))

\* re.match(r"^\[id=.*\]", s): "[id=" first, then a "]" on the same line
match_heading_id(s) ==
    /\ Len(s) >= 2
    /\ s[1] = "[id="
    /\ \E k \in 2..Len(s) :
          /\ s[k] = "]"
          /\ \A m \in 2..(k - 1) : s[m] # LF

\* list.insert with the position off by one
list_insert_after(lines, i, x) ==
    SubSeq(lines, 1, i + 1) \o <<x>> \o SubSeq(lines, i + 2, Len(lines))

\* list.insert(i, x) for 0 <= i <= len(list)
list_insert(lines, i, x) ==
    SubSeq(lines, 1, i) \o <<x>> \o SubSeq(lines, i + 1, Len(lines))

\* ----------------------------------------------------------- AsciiDocFile
\* AsciiDocFile.__init__, given the text read from the path
AsciiDocFile(path, text) ==
    [path |-> path, content |-> text, lines |-> splitlines(text)]

\* the marker looked for at the start of the text only
has_content_type_at_start(doc) ==
    doc.content # <<>> /\ doc.content[1] = MARKER

\* ":_mod-docs-content-type:" in self.content
has_content_type(doc) ==
    \E k \in 1..Len(doc.content) : doc.content[k] = MARKER

\* find_first_heading_id without its return inside the loop: the last
\* matching line wins
find_last_heading_id(doc) ==
    LET hits == {i \in 1..Len(doc.lines) : match_heading_id(strip(doc.lines[i]))}
    IN  IF hits = {} THEN NoIndex
        ELSE (CHOOSE i \in hits : \A j \in hits : i >= j) - 1

\* AsciiDocFile.find_first_heading_id: 0-based index, or NoIndex
find_first_heading_id(doc) ==
    LET hits == {i \in 1..Len(doc.lines) : match_heading_id(strip(doc.lines[i]))}
    IN  IF hits = {} THEN NoIndex
        ELSE (CHOOSE i \in hits : \A j \in hits : i <= j) - 1

\* f":_mod-docs-content-type: {content_type}\n"
content_type_line(content_type) == <<MARKER, SP, content_type, LF>>

\* "// TODO: needs-type-review\n"
review_line == <<REVIEW, LF>>

\* add_content_type refusing a document that already has a marker line
add_content_type_guarded(doc, content_type, d) ==
    LET heading_line == find_first_heading_id(doc)
        new_line == content_type_line(content_type)
        lines == list_insert(doc.lines, heading_line, new_line)
        marked == \E i \in 1..Len(doc.lines) :
                     \E k \in 1..Len(doc.lines[i]) : doc.lines[i][k] = MARKER
    IN  IF heading_line = NoIndex \/ marked
        THEN [ret |-> FALSE, doc |-> doc, disk |-> d]
        ELSE [ret |-> TRUE,
              doc |-> [doc EXCEPT !.lines = lines],
              disk |-> [d EXCEPT ![doc.path] = write_text(Concat(lines))]]

\* add_content_type testing "not heading_line" for "heading_line is None":
\* an anchor on the first line counts as none
add_content_type_falsy(doc, content_type, d) ==
    LET heading_line == find_first_heading_id(doc)
        new_line == content_type_line(content_type)
        lines == list_insert(doc.lines, heading_line, new_line)
    IN  IF heading_line = NoIndex \/ heading_line = 0
        THEN [ret |-> FALSE, doc |-> doc, disk |-> d]
        ELSE [ret |-> TRUE,
              doc |-> [doc EXCEPT !.lines = lines],
              disk |-> [d EXCEPT ![doc.path] = write_text(Concat(lines))]]

\* AsciiDocFile.add_content_type on the file system d: the returned flag,
\* the document afterwards and the file system afterwards
add_content_type(doc, content_type, d) ==
    LET heading_line == find_first_heading_id(doc)
        new_line == content_type_line(content_type)
        lines == list_insert(doc.lines, heading_line, new_line)
    IN  IF heading_line = NoIndex
        THEN [ret |-> FALSE, doc |-> doc, disk |-> d]
        ELSE [ret |-> TRUE,
              doc |-> [doc EXCEPT !.lines = lines],
              disk |-> [d EXCEPT ![doc.path] = write_text(Concat(lines))]]

\* add_review_marker writing the file before looking for the heading
add_review_marker_write_first(doc, d) ==
    LET heading_line == find_first_heading_id(doc)
        lines == list_insert(doc.lines, heading_line, review_line)
    IN  IF heading_line = NoIndex
        THEN [ret |-> FALSE, doc |-> doc,
              disk |-> [d EXCEPT ![doc.path] = write_text(Concat(doc.lines))]]
        ELSE [ret |-> TRUE,
              doc |-> [doc EXCEPT !.lines = lines],
              disk |-> [d EXCEPT ![doc.path] = write_text(Concat(lines))]]

\* AsciiDocFile.add_review_marker on the file system d
add_review_marker(doc, d) ==
    LET heading_line == find_first_heading_id(doc)
        new_line == review_line
        lines == list_insert(doc.lines, heading_line, new_line)
    IN  IF heading_line = NoIndex
        THEN [ret |-> FALSE, doc |-> doc, disk |-> d]
        ELSE [ret |-> TRUE,
              doc |-> [doc EXCEPT !.lines = lines],
              disk |-> [d EXCEPT ![doc.path] = write_text(Concat(lines))]]

\* ------------------------------------------------------- sample file bytes
Anchored == <<"x", CR, LF, SP, "[id=", "x", "]", CR, LF, "[id=", "]", LF>>
NoAnchor == <<"[id=", "x", CR, "]">>
Tagged == <<"x", LF, MARKER, SP, "x", LF, "[id=", "]", LF>>
Undecodable == <<"[id=", "]", LF, BADBYTE>>

Samples == {Anchored, NoAnchor, Tagged, Undecodable}

\* ------------------------------------------------------------ AsciiDocTUI
VARIABLES
    disk,               \* the .adoc files under the directory, in path order:
                        \* path p holds the bytes disk[p]
    files,              \* self.files: the candidate documents
    current_index,      \* self.current_index
    scroll_offset,      \* self.scroll_offset
    last_modification,  \* self.last_modification: None or <<index, lines>>
    pc,                 \* where run() stands
    before              \* history: the focused document as the tag or flag
                        \* command held in last_modification found it

vars == <<disk, files, current_index, scroll_offset, last_modification, pc, before>>

RECURSIVE find_asciidoc_files_from(_, _)
\* AsciiDocTUI._find_asciidoc_files, over the sorted paths p, p+1, ...
find_asciidoc_files_from(d, p) ==
    IF p > Len(d) THEN <<>>
    ELSE LET r == read_text(d[p])
             doc == AsciiDocFile(p, r.text)
         IN  IF r.ok /\ ~has_content_type(doc)
             THEN <<doc>> \o find_asciidoc_files_from(d, p + 1)
             ELSE find_asciidoc_files_from(d, p + 1)

find_asciidoc_files(d) == find_asciidoc_files_from(d, 1)

\* the loop test with <= for <
loop_test_inclusive(index, fs) == IF index <= Len(fs) THEN "loop" ELSE "report"

\* the loop test of run(), and its early return on an empty list
loop_test(index, fs) == IF index < Len(fs) THEN "loop" ELSE "report"

\* lines inserted by the program and present in the files; MaxEdits bounds
\* it, as files grow without limit under tag, retreat, tag and from one
\* session to the next
RECURSIVE inserted_tokens(_)
inserted_tokens(s) ==
    IF s = <<>> THEN 0
    ELSE (IF Head(s) \in ContentTypes \cup {REVIEW} THEN 1 ELSE 0)
         + inserted_tokens(Tail(s))

RECURSIVE inserted(_)
inserted(d) ==
    IF d = <<>> THEN 0 ELSE inserted_tokens(Head(d)) + inserted(Tail(d))

\* content_height of _scroll_down
content_height == height - 4

\* AsciiDocTUI.__init__ and the start of run(), on the directory d
start(d) ==
    /\ disk = d
    /\ files = find_asciidoc_files(d)
    /\ current_index = 0
    /\ scroll_offset = 0
    /\ last_modification = None
    /\ pc = IF find_asciidoc_files(d) = <<>> THEN "nofiles" ELSE "loop"
    /\ before = None

\* a directory of NumFiles sample files
Init == \E d \in [1..NumFiles -> Samples] : start(d)

\* a directory of three candidate files
InitTrio == \E a, b, c \in {Anchored, NoAnchor} : start(<<a, b, c>>)

\* a text of n plain lines, then an anchor line if anchored
RECURSIVE LongText(_, _)
LongText(n, anchored) ==
    IF n = 0
    THEN (IF anchored THEN <<"[id=", "]", LF>> ELSE <<>>)
    ELSE <<"x", LF>> \o LongText(n - 1, anchored)

\* a directory of a long document and a short one
InitScroll ==
    \E n \in 0..MaxLines, anchored \in BOOLEAN :
        start(<<LongText(n, anchored), NoAnchor>>)

\* texts with exactly one anchor line, and texts with none
OneAnchor ==
    {<<"[id=", "x", "]", LF>>,
     <<"x", LF, SP, "[id=", "]", CR, LF, "x">>}
NoAnchors == {NoAnchor, <<"x", LF, "]", LF>>}

\* a directory of a.adoc with a marker, b.adoc with one anchor line and
\* c.adoc with no anchor line
InitScenario ==
    \E b \in OneAnchor, c \in NoAnchors : start(<<Tagged, b, c>>)

\* a directory of one file, of any text of at most MaxLen tokens or a sample
Alphabet == {"[id=", "]", LF, CR, SP, MARKER}
Texts == UNION {[1..n -> Alphabet] : n \in 0..MaxLen}
InitDoc == \E t \in Texts \cup Samples : start(<<t>>)

\* _next_file without the scroll reset
next_file_keep_scroll(index, offset, fs) ==
    IF index < Len(fs)
    THEN [current_index |-> index + 1, scroll_offset |-> offset]
    ELSE [current_index |-> index, scroll_offset |-> offset]

\* _next_file going round to the first document after the last
next_file_wrap(index, offset, fs) ==
    IF index < Len(fs)
    THEN [current_index |-> (index + 1) % Len(fs), scroll_offset |-> 0]
    ELSE [current_index |-> index, scroll_offset |-> offset]

\* AsciiDocTUI._next_file: the index and scroll offset afterwards
next_file(index, offset, fs) ==
    IF index < Len(fs)
    THEN [current_index |-> index + 1, scroll_offset |-> 0]
    ELSE [current_index |-> index, scroll_offset |-> offset]

\* _prev_file without its guard
prev_file_unguarded(index, offset) ==
    [current_index |-> index - 1, scroll_offset |-> 0]

\* _prev_file leaving the scroll offset as it is
prev_file_keep_scroll(index, offset) ==
    IF index > 0
    THEN [current_index |-> index - 1, scroll_offset |-> offset]
    ELSE [current_index |-> index, scroll_offset |-> offset]

\* AsciiDocTUI._prev_file
prev_file(index, offset) ==
    IF index > 0
    THEN [current_index |-> index - 1, scroll_offset |-> 0]
    ELSE [current_index |-> index, scroll_offset |-> offset]

\* a snapshot naming the document after the focused one
snapshot_next_index(index, doc) == <<index + 1, doc.lines>>

\* the snapshot _add_type and _mark_for_review take before inserting
snapshot(index, doc) == <<index, doc.lines>>

\* keys c, p, r: AsciiDocTUI._add_type
add_type(content_type) ==
    /\ pc = "loop"
    /\ LET current_file == files[current_index + 1]
           r == add_content_type(current_file, content_type, disk)
           nf == next_file(current_index, scroll_offset, files)
       IN  /\ r.ret => inserted(disk) < MaxEdits
           /\ last_modification' = snapshot(current_index, current_file)
           /\ files' = [files EXCEPT ![current_index + 1] = r.doc]
           /\ disk' = r.disk
           /\ current_index' = nf.current_index
           /\ scroll_offset' = nf.scroll_offset
           /\ pc' = loop_test(nf.current_index, files)
           /\ before' = [index |-> current_index, lines |-> current_file.lines,
                         bytes |-> disk[current_file.path], ret |-> r.ret]

\* key ?: AsciiDocTUI._mark_for_review
mark_for_review ==
    /\ pc = "loop"
    /\ LET current_file == files[current_index + 1]
           r == add_review_marker(current_file, disk)
           nf == next_file(current_index, scroll_offset, files)
       IN  /\ r.ret => inserted(disk) < MaxEdits
           /\ last_modification' = snapshot(current_index, current_file)
           /\ files' = [files EXCEPT ![current_index + 1] = r.doc]
           /\ disk' = r.disk
           /\ current_index' = nf.current_index
           /\ scroll_offset' = nf.scroll_offset
           /\ pc' = loop_test(nf.current_index, files)
           /\ before' = [index |-> current_index, lines |-> current_file.lines,
                         bytes |-> disk[current_file.path], ret |-> r.ret]

\* _undo restoring onto the document shown instead of the snapshot's
undo_restore_shown(fs, d, file_index, original_lines) ==
    LET undone_file == fs[current_index + 1]
    IN  [files |-> [fs EXCEPT ![current_index + 1].lines = original_lines],
         disk |-> [d EXCEPT ![undone_file.path] = write_text(Concat(original_lines))]]

\* what _undo restores: the document and the file system afterwards
undo_restore(fs, d, file_index, original_lines) ==
    LET undone_file == fs[file_index + 1]
    IN  [files |-> [fs EXCEPT ![file_index + 1].lines = original_lines],
         disk |-> [d EXCEPT ![undone_file.path] = write_text(Concat(original_lines))]]

\* _undo redrawing from the top when there is nothing to undo
undo_reset_view ==
    /\ pc = "loop"
    /\ IF last_modification = None
       THEN /\ scroll_offset' = 0
            /\ UNCHANGED <<disk, files, current_index, last_modification,
                           pc, before>>
       ELSE LET file_index == last_modification[1]
                original_lines == last_modification[2]
                r == undo_restore(files, disk, file_index, original_lines)
            IN  /\ files' = r.files
                /\ disk' = r.disk
                /\ last_modification' = None
                /\ current_index' = file_index
                /\ scroll_offset' = 0
                /\ pc' = loop_test(file_index, files)
                /\ before' = None

\* key u: AsciiDocTUI._undo
undo ==
    /\ pc = "loop"
    /\ IF last_modification = None
       THEN UNCHANGED <<disk, files, current_index, scroll_offset,
                        last_modification, pc, before>>
       ELSE LET file_index == last_modification[1]
                original_lines == last_modification[2]
                r == undo_restore(files, disk, file_index, original_lines)
            IN  /\ files' = r.files
                /\ disk' = r.disk
                /\ last_modification' = None
                /\ current_index' = file_index
                /\ scroll_offset' = 0
                /\ pc' = loop_test(file_index, files)
                /\ before' = None

\* key f: AsciiDocTUI._next_file
key_next_file ==
    /\ pc = "loop"
    /\ LET nf == next_file(current_index, scroll_offset, files)
       IN  /\ current_index' = nf.current_index
           /\ scroll_offset' = nf.scroll_offset
           /\ pc' = loop_test(nf.current_index, files)
    /\ UNCHANGED <<disk, files, last_modification, before>>

\* key b: AsciiDocTUI._prev_file
key_prev_file ==
    /\ pc = "loop"
    /\ LET pf == prev_file(current_index, scroll_offset)
       IN  /\ current_index' = pf.current_index
           /\ scroll_offset' = pf.scroll_offset
           /\ pc' = loop_test(pf.current_index, files)
    /\ UNCHANGED <<disk, files, last_modification, before>>

\* _scroll_down adding a full step without clamping to the last window
scroll_down_offset_unclamped(offset, doc) ==
    IF offset + content_height < Len(doc.lines)
    THEN offset + SCROLL_STEP
    ELSE offset

\* AsciiDocTUI._scroll_down: the scroll offset afterwards
scroll_down_offset(offset, doc) ==
    IF offset + content_height < Len(doc.lines)
    THEN offset + (IF SCROLL_STEP < Len(doc.lines) - offset - content_height
                   THEN SCROLL_STEP
                   ELSE Len(doc.lines) - offset - content_height)
    ELSE offset

\* AsciiDocTUI._scroll_up: the scroll offset afterwards
scroll_up_offset(offset) ==
    IF offset - SCROLL_STEP > 0 THEN offset - SCROLL_STEP ELSE 0

\* keys m and KEY_DOWN
scroll_down ==
    /\ pc = "loop"
    /\ scroll_offset' = scroll_down_offset(scroll_offset, files[current_index + 1])
    /\ UNCHANGED <<disk, files, current_index, last_modification, pc, before>>

\* key KEY_UP
scroll_up ==
    /\ pc = "loop"
    /\ scroll_offset' = scroll_up_offset(scroll_offset)
    /\ UNCHANGED <<disk, files, current_index, last_modification, pc, before>>

\* key q: break out of the loop
quit ==
    /\ pc = "loop"
    /\ pc' = "report"
    /\ UNCHANGED <<disk, files, current_index, scroll_offset, last_modification, before>>

\* the process ends: nothing runs any more, its objects and the files stay
\* as they are
exited(how) ==
    /\ pc' = how
    /\ UNCHANGED <<disk, files, current_index, scroll_offset, last_modification, before>>

\* f"Processed {self.current_index} of {len(self.files)} files."
report == [processed |-> current_index, total |-> Len(files)]

\* "Press any key to exit...", after the loop or with no candidates; run()
\* returns and main() with it
press_any_key ==
    /\ pc \in {"report", "nofiles"}
    /\ exited("done")

\* KeyboardInterrupt during a getch(): main() exits
interrupt ==
    /\ pc \in {"loop", "report", "nofiles"}
    /\ exited("interrupted")

\* one pass of the loop of run(), or the end of the process; any other
\* key changes nothing
Next ==
    \/ \E content_type \in ContentTypes : add_type(content_type)
    \/ mark_for_review
    \/ undo
    \/ key_next_file
    \/ key_prev_file
    \/ scroll_down
    \/ scroll_up
    \/ quit
    \/ press_any_key
    \/ interrupt

\* main() run again on the same directory after the process has ended
new_session ==
    /\ pc \in {"done", "interrupted"}
    /\ files' = find_asciidoc_files(disk)
    /\ current_index' = 0
    /\ scroll_offset' = 0
    /\ last_modification' = None
    /\ pc' = IF find_asciidoc_files(disk) = <<>> THEN "nofiles" ELSE "loop"
    /\ before' = None
    /\ UNCHANGED disk

NextRerun ==
    \/ Next
    \/ new_session

Spec == Init /\ [][Next]_vars
SpecRerun == Init /\ [][NextRerun]_vars
SpecTrio == InitTrio /\ [][Next]_vars
SpecDoc == InitDoc /\ [][Next]_vars
SpecScroll == InitScroll /\ [][Next]_vars
SpecScenario == InitScenario /\ [][Next]_vars

\* ------------------------------------------------------------- properties
tag_or_flag == (\E content_type \in ContentTypes : add_type(content_type)) \/ mark_for_review

focused == files[current_index + 1]

HasAnchorLine(doc) ==
    \E i \in 1..Len(doc.lines) : match_heading_id(strip(doc.lines[i]))

DocsUnchangedExcept(j) ==
    /\ Len(files') = Len(files)
    /\ \A k \in 1..Len(files) :
          k # j + 1 => /\ files'[k] = files[k]
                       /\ disk'[files[k].path] = disk[files[k].path]

\* C1 (undo round-trip).  When the command held in the undo slot changed its
\* document D from content C, an undo puts D's lines and D's file back to
\* exactly C, empties the slot, focuses D and resets the scroll offset; an
\* undo with an empty slot changes nothing.
C1_UndoRoundTrip ==
    [][undo =>
         IF last_modification = None
         THEN UNCHANGED <<disk, files, current_index, last_modification>>
         ELSE before.ret =>
                /\ files'[before.index + 1].lines = before.lines
                /\ disk'[files[before.index + 1].path] = before.bytes
                /\ last_modification' = None
                /\ current_index' = before.index
                /\ scroll_offset' = 0]_vars

\* C2 (single-slot undo).  Each tag or flag command overwrites the slot with
\* the focused document as it found it; the other commands leave the slot
\* and the documents alone; an undo after a mutating command B on document j
\* restores only document j, to its lines and file content just before B,
\* and empties the slot, so that no earlier content can be restored.
C2_SingleSlotUndo ==
    [][/\ tag_or_flag => last_modification' = <<current_index, focused.lines>>
       /\ (key_next_file \/ key_prev_file \/ scroll_down \/ scroll_up \/ quit)
             => UNCHANGED <<last_modification, files, disk>>
       /\ (undo /\ last_modification = None) => UNCHANGED <<last_modification, files, disk>>
       /\ (undo /\ last_modification # None /\ before.ret) =>
             /\ files'[before.index + 1].lines = before.lines
             /\ disk'[files[before.index + 1].path] = before.bytes
             /\ DocsUnchangedExcept(before.index)
             /\ last_modification' = None]_vars

\* The part of C2 that is about the documents in memory and the slot alone.
C2_InMemory ==
    [][/\ tag_or_flag => last_modification' = <<current_index, focused.lines>>
       /\ (key_next_file \/ key_prev_file \/ scroll_down \/ scroll_up \/ quit)
             => UNCHANGED <<last_modification, files, disk>>
       /\ (undo /\ last_modification = None) => UNCHANGED <<last_modification, files, disk>>
       /\ (undo /\ last_modification # None /\ before.ret) =>
             /\ files'[before.index + 1].lines = before.lines
             /\ disk'[files[before.index + 1].path] = write_text(Concat(before.lines))
             /\ DocsUnchangedExcept(before.index)
             /\ last_modification' = None]_vars

\* C3 (no snapshot on a failed insertion).  A tag or flag command on a
\* focused document without an anchor line leaves last_modification as it
\* was.
C3_NoSnapshotOnFailure ==
    [][(tag_or_flag /\ ~HasAnchorLine(focused))
          => last_modification' = last_modification]_vars

\* C4 (insertion failure is a no-op).  On a focused document without an
\* anchor line, add_content_type (any category) and add_review_marker
\* return failure and leave the document's lines and every file unchanged.
C4_InsertionFailureNoOp ==
    [][(tag_or_flag /\ ~HasAnchorLine(focused)) =>
          /\ before'.ret = FALSE
          /\ files'[current_index + 1].lines = focused.lines
          /\ disk' = disk]_vars

\* a failed insertion has happened on a document that has lines
C4_Witness ==
    /\ before # None
    /\ ~before.ret
    /\ before.lines # <<>>
    /\ pc = "report"

\* C5 (disk/memory agreement).  Wherever the session waits for a key, the
\* file of every candidate document holds the concatenation of its lines.
C5_DiskEqualsLines ==
    pc \in {"loop", "report"} =>
       \A k \in 1..Len(files) : disk[files[k].path] = Concat(files[k].lines)

\* C6 (cursor advancement).  Every tag and flag command advances
\* current_index by exactly 1 and sets scroll_offset to 0, whether or not
\* the insertion succeeded.
C6_CursorAdvances ==
    [][tag_or_flag => /\ current_index' = current_index + 1
                      /\ scroll_offset' = 0]_vars

\* a failed insertion has advanced the cursor to the next candidate
C6_Witness ==
    /\ pc = "loop"
    /\ before # None
    /\ ~before.ret
    /\ current_index = before.index + 1
    /\ scroll_offset = 0

\* C7 (cursor bounds).  0 <= current_index <= len(files) always; a command
\* is read only while current_index < len(files); a retreat at 0 stays at 0.
C7_CursorBounds ==
    /\ [](/\ 0 <= current_index
          /\ current_index <= Len(files)
          /\ pc = "loop" => current_index < Len(files))
    /\ [][(key_prev_file /\ current_index = 0) => current_index' = 0]_vars

\* the cursor has run past the last candidate with an undo slot filled
C7_Witness ==
    /\ pc = "report"
    /\ Len(files) > 0
    /\ current_index = Len(files)
    /\ last_modification # None

\* C8 (the undo slot names a candidate).  last_modification is None or a
\* pair whose index is that of a candidate, and an undo with a filled slot
\* leaves the session in its loop on that document.
C8_SlotIndexValid ==
    /\ [](last_modification # None =>
             /\ 0 <= last_modification[1]
             /\ last_modification[1] < Len(files))
    /\ [][(undo /\ last_modification # None) =>
             /\ pc' = "loop"
             /\ current_index' = last_modification[1]]_vars

\* the slot holds an edit of the first candidate, the cursor is on the second
C8_Witness ==
    /\ pc = "loop"
    /\ last_modification # None
    /\ last_modification[1] = 0
    /\ current_index = 1
    /\ files[1].lines # last_modification[2]

\* the first anchor line of a document, 0-based
FirstAnchor(doc) ==
    CHOOSE a \in 0..(Len(doc.lines) - 1) :
       /\ match_heading_id(strip(doc.lines[a + 1]))
       /\ \A b \in 0..(a - 1) : ~match_heading_id(strip(doc.lines[b + 1]))

PlacedAbove(old, new, a, line) ==
    /\ Len(new) = Len(old) + 1
    /\ new[a + 1] = line
    /\ new[a + 2] = old[a + 1]
    /\ \A k \in 1..a : new[k] = old[k]
    /\ \A k \in (a + 1)..Len(old) : new[k + 1] = old[k]

\* C9 (insertion placement).  On a document whose first anchor line is at
\* index a, a tag with category X gives a line sequence one longer with
\* ":_mod-docs-content-type: X" at index a, the anchor line at a + 1 and
\* the original lines in their order; a flag does so with the review line.
C9_InsertionPlacement ==
    [][(pc = "loop" /\ HasAnchorLine(focused)) =>
          /\ \A X \in ContentTypes :
                add_type(X) =>
                   /\ before'.ret
                   /\ PlacedAbove(focused.lines, files'[current_index + 1].lines,
                                  FirstAnchor(focused), <<MARKER, SP, X, LF>>)
          /\ mark_for_review =>
                /\ before'.ret
                /\ PlacedAbove(focused.lines, files'[current_index + 1].lines,
                               FirstAnchor(focused), <<REVIEW, LF>>)]_vars

\* a successful insertion below the first line of a document
C9_Witness ==
    /\ before # None
    /\ before.ret
    /\ FirstAnchor([lines |-> before.lines]) > 0
    /\ Len(files[before.index + 1].lines) = Len(before.lines) + 1

ContainsMarker(text) == \E k \in 1..Len(text) : text[k] = MARKER

\* C10 (has_marker follows the current text).  For every document,
\* has_content_type() is true exactly when its current lines contain the
\* content-type marker token.
C10_HasMarkerCurrent ==
    \A k \in 1..Len(files) :
       has_content_type(files[k]) <=> ContainsMarker(Concat(files[k].lines))

\* the paths whose file can be read and does not contain the marker token
EligiblePaths(d) ==
    {p \in 1..Len(d) :
        /\ \A k \in 1..Len(d[p]) : d[p][k] # BADBYTE
        /\ ~ContainsMarker(d[p])}

\* fs holds exactly the eligible files of d, in path order, as read from d
Eligible(fs, d) ==
    /\ {fs[k].path : k \in 1..Len(fs)} = EligiblePaths(d)
    /\ \A k \in 1..(Len(fs) - 1) : fs[k].path < fs[k + 1].path
    /\ \A k \in 1..Len(fs) :
          /\ Concat(fs[k].lines) = universal_newlines(d[fs[k].path])
          /\ fs[k].content = universal_newlines(d[fs[k].path])

\* C11 (eligibility at session start).  At the start of the first session
\* and of every later session on the same files, files holds exactly the
\* readable documents whose file does not contain the content-type marker,
\* in path order.
C11_EligibleAtStart ==
    /\ Eligible(files, disk)
    /\ [][new_session => Eligible(files', disk')]_vars

HasTagLine(bytes) == \E k \in 1..Len(bytes) : bytes[k] \in ContentTypes
HasReviewLine(bytes) == \E k \in 1..Len(bytes) : bytes[k] = REVIEW

\* a later session: a file tagged by an earlier session is no candidate, a
\* file flagged by an earlier session is the focused candidate
C11_Witness ==
    /\ pc = "loop"
    /\ inserted(disk) = 2
    /\ \E p \in 1..Len(disk) :
          /\ HasTagLine(disk[p])
          /\ \A k \in 1..Len(files) : files[k].path # p
    /\ HasReviewLine(disk[focused.path])
    /\ focused.content = disk[focused.path]

\* C12 (cursor monotonicity). A step that is neither key b nor key u never
\* lowers current_index; key b with current_index > 0 lowers it by exactly
\* one; key u with a snapshot in last_modification sets it to the index of
\* the document the snapshot was taken of.
C12_CursorMonotone ==
    [][/\ (~key_prev_file /\ ~undo) => current_index' >= current_index
       /\ (key_prev_file /\ current_index > 0)
             => current_index' = current_index - 1
       /\ (undo /\ last_modification # None)
             => current_index' = before.index]_vars

\* the cursor is two documents past the snapshotted one: key u will move it
\* back by more than one
C12_Witness ==
    /\ pc = "loop"
    /\ last_modification # None
    /\ current_index = before.index + 2

\* C13 (scroll reset on focus change). Every step that changes
\* current_index leaves scroll_offset at 0, and so does key u with a
\* snapshot in last_modification, also when current_index stays.
C13_ScrollReset ==
    [][/\ current_index' # current_index => scroll_offset' = 0
       /\ (undo /\ last_modification # None) => scroll_offset' = 0]_vars

\* scrolled down in the document the snapshot is of: key u will not move
\* the cursor, key b and key f will
C13_Witness ==
    /\ pc = "loop"
    /\ scroll_offset > 0
    /\ last_modification # None
    /\ current_index = last_modification[1]
    /\ current_index > 0

Min(a, b) == IF a < b THEN a ELSE b
Max(a, b) == IF a > b THEN a ELSE b

\* C14 (scroll bounds). With content_height >= 1, while the loop runs
\* scroll_offset is never negative and is either 0 or at most the document's
\* length less content_height; scroll down moves only when lines remain
\* below the window, by min(10, lines remaining below), and scroll up goes
\* to max(0, scroll_offset - 10). Insertions and undos, which change the
\* document's length, do not break this.
C14_ScrollBounds ==
    /\ [](/\ content_height >= 1
          /\ pc = "loop" =>
                /\ scroll_offset >= 0
                /\ \/ scroll_offset = 0
                   \/ scroll_offset + content_height <= Len(focused.lines))
    /\ [][scroll_down =>
            LET len == Len(focused.lines)
            IN  scroll_offset' =
                    IF scroll_offset + content_height < len
                    THEN scroll_offset
                         + Min(10, len - scroll_offset - content_height)
                    ELSE scroll_offset]_vars
    /\ [][scroll_up => scroll_offset' = Max(0, scroll_offset - 10)]_vars

\* a document made longer by an insertion, scrolled by full steps and then
\* by a clamped one to its last window
C14_Witness ==
    /\ pc = "loop"
    /\ last_modification # None
    /\ current_index = last_modification[1]
    /\ Len(focused.lines) = Len(last_modification[2]) + 1
    /\ scroll_offset > 2 * SCROLL_STEP
    /\ scroll_offset + content_height = Len(focused.lines)

\* C15 (undo with nothing recorded). Key u with last_modification empty
\* leaves current_index, scroll_offset, last_modification, every document's
\* lines and every file's bytes as they were, and the loop goes on.
C15_UndoNothing ==
    [][(undo /\ last_modification = None) =>
          /\ UNCHANGED <<current_index, scroll_offset, last_modification>>
          /\ \A k \in 1..Len(files) : files'[k].lines = files[k].lines
          /\ Len(files') = Len(files)
          /\ disk' = disk
          /\ pc' = "loop"]_vars

\* nothing to undo right after an undo took an insertion back, the view
\* scrolled down in a later document
C15_Witness ==
    /\ pc = "loop"
    /\ last_modification = None
    /\ scroll_offset > 0
    /\ current_index > 0
    /\ \E k \in 1..Len(files) :
          Concat(files[k].lines) # files[k].content

\* the session as it starts on a.adoc, b.adoc, c.adoc: candidates [b, c],
\* cursor 0, nothing edited
ScenarioStart ==
    /\ pc = "loop"
    /\ [k \in 1..Len(files) |-> files[k].path] = <<2, 3>>
    /\ current_index = 0
    /\ last_modification = None
    /\ \A k \in 1..Len(files) : files[k].lines = splitlines(files[k].content)
    /\ HasAnchorLine(files[1])
    /\ ~HasAnchorLine(files[2])

\* after tag-as-CONCEPT: b has the CONCEPT line just above its anchor, in
\* memory and in its file, and the cursor is on c
ScenarioTagged ==
    /\ pc = "loop"
    /\ current_index = 1
    /\ LET old == [lines |-> splitlines(files[1].content)]
       IN  /\ PlacedAbove(old.lines, files[1].lines, FirstAnchor(old),
                          <<MARKER, SP, "CONCEPT", LF>>)
           /\ last_modification = <<0, old.lines>>
    /\ read_text(disk[2]).ok
    /\ splitlines(read_text(disk[2]).text) = files[1].lines
    /\ files[2].lines = splitlines(files[2].content)

\* the session over with both candidates passed
ScenarioFinished ==
    /\ pc = "report"
    /\ current_index = 2
    /\ current_index = Len(files)
    /\ report = [processed |-> 2, total |-> 2]
    /\ files[2].lines = splitlines(files[2].content)

\* C16 (end-to-end scenario). With a.adoc marked, b.adoc with one anchor
\* line and c.adoc with none, the session starts on candidates [b, c] at
\* cursor 0; tag-as-CONCEPT puts the CONCEPT line just above the anchor of b
\* in memory and on disk and moves the cursor to 1; tag-as-PROCEDURE then
\* leaves c and b as they are, moves the cursor to 2, ends the loop and
\* reports 2 of 2; a.adoc is never written.
C16_Scenario ==
    /\ ScenarioStart
    /\ [][(ScenarioStart /\ add_type("CONCEPT")) => ScenarioTagged']_vars
    /\ [][(ScenarioTagged /\ add_type("PROCEDURE")) =>
             /\ ScenarioFinished'
             /\ disk' = disk
             /\ files' = files]_vars
    /\ [](disk[1] = Tagged)

\* the end of the scenario: b tagged once, c refused, report showing
C16_Witness ==
    /\ ScenarioFinished
    /\ inserted(disk) = 1
    /\ HasTagLine(disk[2])
    /\ before = [index |-> 1, lines |-> files[2].lines,
                 bytes |-> disk[3], ret |-> FALSE]
    /\ last_modification = <<1, files[2].lines>>

AnchorIndexes(doc) ==
    {i \in 0..(Len(doc.lines) - 1) : match_heading_id(strip(doc.lines[i + 1]))}

\* C17 (first anchor). find_first_heading_id gives the smallest index of an
\* anchor line, and None exactly when the document has no anchor line;
\* right after a successful insertion at index a it gives a + 1.
C17_FindAnchor ==
    /\ [](\A k \in 1..Len(files) :
            LET found == find_first_heading_id(files[k])
            IN  /\ found = NoIndex <=> AnchorIndexes(files[k]) = {}
                /\ found # NoIndex =>
                      /\ found \in AnchorIndexes(files[k])
                      /\ \A j \in AnchorIndexes(files[k]) : found <= j)
    /\ [][(tag_or_flag /\ before'.ret) =>
            find_first_heading_id(files'[current_index + 1])
               = find_first_heading_id(focused) + 1]_vars

\* a document with two anchor lines after an insertion above the first
C17_Witness ==
    /\ before # None
    /\ before.ret
    /\ Cardinality(AnchorIndexes(files[before.index + 1])) = 2
    /\ find_first_heading_id(files[before.index + 1])
          = find_first_heading_id([lines |-> before.lines]) + 1
    /\ files[before.index + 1].lines[find_first_heading_id(files[before.index + 1])]
          \in {content_type_line(X) : X \in ContentTypes} \cup {review_line}

\* every document but the one at index j keeps its lines, and every file
\* but that document's keeps its bytes
OnlyChanges(j) ==
    /\ \A k \in 1..Len(files) : k # j + 1 => files'[k].lines = files[k].lines
    /\ \A p \in 1..Len(disk) : p # files[j + 1].path => disk'[p] = disk[p]

\* C18 (frame). The sequence of candidates keeps its length and order in
\* every step; keys f, b, scroll down, scroll up and q change no
\* document's lines, no file and not last_modification; a tag or flag
\* changes lines and file of the focused document at most; an undo those
\* of the snapshotted document at most.
C18_Frame ==
    [][/\ Len(disk') = Len(disk)
       /\ [k \in 1..Len(files') |-> files'[k].path]
             = [k \in 1..Len(files) |-> files[k].path]
       /\ (key_next_file \/ key_prev_file \/ scroll_down \/ scroll_up \/ quit)
             => /\ \A k \in 1..Len(files) : files'[k].lines = files[k].lines
                /\ disk' = disk
                /\ last_modification' = last_modification
       /\ tag_or_flag => OnlyChanges(current_index)
       /\ (undo /\ last_modification # None)
             => OnlyChanges(before.index)]_vars

\* the snapshot is of a document that refused the insertion and is no
\* longer shown; an undo will rewrite that document's file
C18_Witness ==
    /\ pc = "loop"
    /\ last_modification # None
    /\ ~before.ret
    /\ current_index = before.index + 1
    /\ disk[files[before.index + 1].path] # write_text(Concat(before.lines))

\* C19 (the end is absorbing). When current_index equals len(files) the
\* loop is over, and key q ends it; once it is over no command is applied:
\* current_index, last_modification, every document's lines and every
\* file's bytes stay as they are and the loop never resumes. A tag or flag
\* on the last candidate, or key f on it, ends the loop, the tag or flag
\* leaving its snapshot in last_modification.
C19_FinishedAbsorbing ==
    /\ [](current_index = Len(files) => pc # "loop")
    /\ [][quit => pc' = "report"]_vars
    /\ [][pc # "loop" =>
            /\ pc' # "loop"
            /\ UNCHANGED <<current_index, last_modification, disk>>
            /\ Len(files') = Len(files)
            /\ \A k \in 1..Len(files) : files'[k].lines = files[k].lines]_vars
    /\ [][(current_index = Len(files) - 1 /\ (tag_or_flag \/ key_next_file)) =>
            /\ pc' = "report"
            /\ tag_or_flag =>
                  last_modification' = <<current_index, focused.lines>>]_vars

\* the loop over after an insertion into the last candidate, its snapshot
\* still in last_modification
C19_Witness ==
    /\ pc = "report"
    /\ current_index = Len(files)
    /\ last_modification # None
    /\ last_modification[1] = Len(files) - 1
    /\ before.ret
    /\ files[Len(files)].lines # last_modification[2]

MarkerLineCount(doc) ==
    Cardinality({i \in 1..Len(doc.lines) : ContainsMarker(doc.lines[i])})

\* the line just above the first anchor line is a content-type line
TaggedAbove(doc) ==
    /\ HasAnchorLine(doc)
    /\ FirstAnchor(doc) > 0
    /\ doc.lines[FirstAnchor(doc)] \in {content_type_line(X) : X \in ContentTypes}

\* C20 (tagging is not guarded by the marker). A tag on a focused document
\* with an anchor line always inserts one more content-type line; when the
\* document was tagged before in the session, the new line goes directly
\* above the anchor and below the earlier one, so the document has two; an
\* undo then takes away the second only, in memory and in the file.
C20_TagUnguarded ==
    /\ [][\A X \in ContentTypes :
            (add_type(X) /\ HasAnchorLine(focused)) =>
               /\ before'.ret
               /\ MarkerLineCount(files'[current_index + 1])
                     = MarkerLineCount(focused) + 1
               /\ ContainsMarker(disk'[focused.path])]_vars
    /\ [][\A X \in ContentTypes :
            (add_type(X) /\ TaggedAbove(focused)) =>
               LET a == FirstAnchor(focused)
                   new == files'[current_index + 1].lines
               IN  /\ new[a] = focused.lines[a]
                   /\ new[a + 1] = content_type_line(X)
                   /\ new[a + 2] = focused.lines[a + 1]
                   /\ MarkerLineCount(files'[current_index + 1]) >= 2]_vars
    /\ [][(/\ undo
           /\ last_modification # None
           /\ TaggedAbove([lines |-> before.lines])
           /\ MarkerLineCount(files[before.index + 1])
                 = MarkerLineCount([lines |-> before.lines]) + 1) =>
            LET j == before.index + 1
            IN  /\ files'[j].lines = before.lines
                /\ MarkerLineCount(files'[j]) = MarkerLineCount(files[j]) - 1
                /\ TaggedAbove(files'[j])
                /\ disk'[files[j].path] = before.bytes]_vars

\* after tag, key b, tag on one document: two content-type lines above
\* its anchor, the snapshot holding the lines with the first only
C20_Witness ==
    /\ pc = "loop"
    /\ last_modification # None
    /\ before.ret
    /\ TaggedAbove([lines |-> before.lines])
    /\ MarkerLineCount(files[before.index + 1]) = 2
    /\ TaggedAbove(files[before.index + 1])
    /\ current_index = before.index + 1
====
